---- MODULE Spec2Model ----
(***************************************************************************)
(* Model of fetch_enrollment.py (utah-astro/enrollment).                   *)
(*                                                                         *)
(* Two specifications share the module:                                    *)
(*   SpecCodec  the two term-key conversions applied to bounded inputs;    *)
(*   Spec       run(): the collection loop, the filter, the left join of   *)
(*              the ASTR and PHYS listings, the stacking and the save.     *)
(*                                                                         *)
(* Python strings are sequences of one-character strings, so that strip()  *)
(* and lower() are computed and not assumed.  Tables are sequences of      *)
(* records, one record per row.                                            *)
(***************************************************************************)
EXTENDS Integers, Sequences, FiniteSets, TLC

VARIABLES
    \* ---- codec harness
    semester,       \* argument of semester_year_to_term_key (a string)
    year,           \* argument of semester_year_to_term_key
    term_key,       \* argument of term_key_to_semester_year / result of the encoding
    decoded,        \* outcome of term_key_to_semester_year
    cpc,            \* position of the codec harness
    \* ---- run()
    year_start, num_years, minimum_cat_no, save_to,   \* arguments of run
    terms,          \* the list built at line 77
    idx,            \* 1-based position of the for loop of line 81 in terms
    t,              \* the ASTR table of the current term (line 83)
    t_all,          \* the list of per-term tables (line 80), later the stacked table
    pc,             \* position in run
    error,          \* the exception that left run, "none" if none
    requests,       \* the fetches issued so far, in order: <<term_key, subject>>
    fetched,        \* per visited term: the listings the fetcher returned
    written,        \* number of writes to save_to
    file            \* the content last written to save_to

cvars == <<semester, year, term_key, decoded, cpc>>
rvars == <<year_start, num_years, minimum_cat_no, save_to, terms, idx, t, t_all,
           pc, error, requests, fetched, written, file>>
vars == <<semester, year, term_key, decoded, cpc,
          year_start, num_years, minimum_cat_no, save_to, terms, idx, t, t_all,
          pc, error, requests, fetched, written, file>>

-----------------------------------------------------------------------------
(* Bounds *)

\* longest run of whitespace put before and after a semester word
MaxPad == 1
\* how far the years given to the codec reach outside 2000..2099
YearSlack == 2
\* largest num_years given to run
MaxNumYears == 2
\* longest listing the fetcher returns for one term and subject
MaxListing == 2
\* most records the fetcher returns over one run
MaxRecords == 4

-----------------------------------------------------------------------------
(* Python strings *)

UpperCase == <<"A","B","C","D","E","F","G","H","I","J","K","L","M",
               "N","O","P","Q","R","S","T","U","V","W","X","Y","Z">>
LowerCase == <<"a","b","c","d","e","f","g","h","i","j","k","l","m",
               "n","o","p","q","r","s","t","u","v","w","x","y","z">>
Whitespace == {" ", "\t", "\n"}

\* str.lower() on one character
LowerChar(c) ==
    IF \E i \in 1..26 : UpperCase[i] = c
    THEN LowerCase[CHOOSE i \in 1..26 : UpperCase[i] = c]
    ELSE c

\* str.lower()
Lower(s) == [i \in 1..Len(s) |-> LowerChar(s[i])]

\* str.strip(): drop the leading and the trailing whitespace
Strip(s) ==
    IF \A i \in 1..Len(s) : s[i] \in Whitespace
    THEN <<>>
    ELSE LET first == CHOOSE i \in 1..Len(s) :
                        /\ s[i] \notin Whitespace
                        /\ \A j \in 1..(i-1) : s[j] \in Whitespace
             last  == CHOOSE i \in 1..Len(s) :
                        /\ s[i] \notin Whitespace
                        /\ \A j \in (i+1)..Len(s) : s[j] \in Whitespace
         IN  SubSeq(s, first, last)

\* list.index(x): 0-based position of the first occurrence, -1 for ValueError
ListIndex(list, x) ==
    IF \E i \in 1..Len(list) : list[i] = x
    THEN (CHOOSE i \in 1..Len(list) :
            list[i] = x /\ \A j \in 1..(i-1) : list[j] # x) - 1
    ELSE -1

\* list[i] with Python's indexing: 0-based, a negative index counts from the end
PyIndexOk(list, i) == i >= -Len(list) /\ i < Len(list)
PyIndex(list, i) == IF i >= 0 THEN list[i + 1] ELSE list[Len(list) + i + 1]

\* Python's // on a non-negative dividend
FloorDiv(a, b) == a \div b

-----------------------------------------------------------------------------
(* Term codec *)

Spring == <<"S","p","r","i","n","g">>
Summer == <<"S","u","m","m","e","r">>
Fall   == <<"F","a","l","l">>

\* the list literal of line 29
SemesterNames == <<Spring, Summer, Fall>>
\* the list literal of line 38
SemesterWords == << <<"s","p","r","i","n","g">>,
                    <<"s","u","m","m","e","r">>,
                    <<"f","a","l","l">> >>

term_key_to_semester_year_Year100(k) ==
    LET i == FloorDiv(k % 10, 2) - 2
    IN  IF PyIndexOk(SemesterNames, i)
        THEN [ok |-> TRUE, semester |-> PyIndex(SemesterNames, i),
              year |-> 2000 + FloorDiv(k % 100, 10)]
        ELSE [ok |-> FALSE, error |-> "IndexError"]

\* term_key_to_semester_year: the index term_key % 10 // 2 - 2 goes through
\* Python's list indexing
term_key_to_semester_year(k) ==
    LET i == FloorDiv(k % 10, 2) - 2
    IN  IF PyIndexOk(SemesterNames, i)
        THEN [ok |-> TRUE, semester |-> PyIndex(SemesterNames, i),
              year |-> 2000 + FloorDiv(k % 1000, 10)]
        ELSE [ok |-> FALSE, error |-> "IndexError"]

Normalize(s) == Lower(Strip(s))

semester_year_to_term_key_NoStrip(s, y) ==
    LET i == ListIndex(SemesterWords, Lower(s))
    IN  IF i < 0 THEN [ok |-> FALSE, error |-> "ValueError"]
        ELSE [ok |-> TRUE, key |-> 1000 + (y % 100) * 10 + i * 2 + 4]

\* semester_year_to_term_key
semester_year_to_term_key(s, y) ==
    LET i == ListIndex(SemesterWords, Normalize(s))
    IN  IF i < 0 THEN [ok |-> FALSE, error |-> "ValueError"]
        ELSE [ok |-> TRUE, key |-> 1000 + (y % 100) * 10 + i * 2 + 4]

-----------------------------------------------------------------------------
(* Codec harness: the inputs are drawn in InitCodec, the actions apply the *)
(* two conversions.                                                        *)

NoResult == [ok |-> FALSE, error |-> "none"]

\* the words the semester arguments are built from, in several casings
Words == { Spring, Summer, Fall,
           <<"s","p","r","i","n","g">>, <<"S","U","M","M","E","R">>,
           <<"f","A","l","L">>, <<"F","A","L","L">>,
           <<"W","i","n","t","e","r">>, <<"w","i","n","t","e","r">>,
           <<"F","a","l">>, <<"F","a"," ","l","l">>, <<"A","u","t","u","m","n">>,
           <<>> }
Pads == UNION { [1..n -> {" ", "\t"}] : n \in 0..MaxPad }
SemesterInputs == { l \o w \o r : l \in Pads, w \in Words, r \in Pads }
Years == (2000 - YearSlack)..(2099 + YearSlack)
\* the 4-digit term numbers
Keys == 1000..9999

RunIdle ==
    /\ year_start = 0 /\ num_years = 0 /\ minimum_cat_no = 0 /\ save_to = ""
    /\ terms = <<>> /\ idx = 0 /\ t = <<>> /\ t_all = <<>>
    /\ pc = "idle" /\ error = "none" /\ requests = <<>> /\ fetched = <<>>
    /\ written = 0 /\ file = <<>>

InitCodec ==
    /\ \/ /\ cpc = "encode"
          /\ semester \in SemesterInputs
          /\ year \in Years
          /\ term_key = 0
       \/ /\ cpc = "decode"
          /\ semester = <<>>
          /\ year = 0
          /\ term_key \in Keys
    /\ decoded = NoResult
    /\ RunIdle

\* a call of semester_year_to_term_key(semester, year)
Encode ==
    /\ cpc = "encode"
    /\ LET r == semester_year_to_term_key(semester, year)
       IN  IF r.ok
           THEN /\ term_key' = r.key
                /\ cpc' = "encoded"
           ELSE /\ term_key' = 0
                /\ cpc' = r.error
    /\ UNCHANGED <<semester, year, decoded>>
    /\ UNCHANGED rvars

\* a call of term_key_to_semester_year(term_key), on a given term number or on
\* the one Encode returned
Decode ==
    /\ cpc \in {"decode", "encoded"}
    /\ decoded' = term_key_to_semester_year(term_key)
    /\ cpc' = IF cpc = "encoded" THEN "roundtrip" ELSE "decoded"
    /\ UNCHANGED <<semester, year, term_key>>
    /\ UNCHANGED rvars

NextCodec == Encode \/ Decode

SpecCodec == InitCodec /\ [][NextCodec]_vars

-----------------------------------------------------------------------------
(* Tables                                                                  *)
(*                                                                         *)
(* The astropy.table operations run calls, as the library defines them:    *)
(*   Table(rows=[])   a table without columns: selecting [cols] from it    *)
(*                    raises KeyError;                                      *)
(*   join(l, r, keys, join_type="left")                                    *)
(*                    raises ValueError when l or r has no row; sorts both *)
(*                    tables on the keys (the order among equal keys is    *)
(*                    the argsort's) and gives, per key, every left row    *)
(*                    with every right row of that key, or once with the   *)
(*                    right columns masked when there is none;             *)
(*   vstack([])       raises ValueError.                                   *)

\* the records fetch_classes can yield (line 53)
RecordPool ==
    { [cat_no |-> 1000, session |-> 1, title |-> "Intro Astro", enrolled |-> 40],
      [cat_no |-> 1000, session |-> 1, title |-> "X",           enrolled |-> 5],
      [cat_no |-> 999,  session |-> 1, title |-> "Low",         enrolled |-> 10] }

SeqsUpTo(S, n) == UNION { [1..k -> S] : k \in 0..n }

\* the value of a masked table cell
Masked == -1

\* the join keys cols[:2]
SameKey(a, b) == a.cat_no = b.cat_no /\ a.session = b.session
KeyLE(a, b) ==
    \/ a.cat_no < b.cat_no
    \/ a.cat_no = b.cat_no /\ a.session <= b.session

IsKeySorted(tab) == \A i \in 1..(Len(tab) - 1) : KeyLE(tab[i], tab[i + 1])

\* the orders an argsort on the keys can put the rows of tab in
KeySortings(tab) ==
    { u \in { [i \in 1..Len(tab) |-> tab[p[i]]] : p \in Permutations(1..Len(tab)) } :
        IsKeySorted(u) }

Filter_Off(tab, m) == tab

\* t[t["cat_no"] >= int(minimum_cat_no)], under `if minimum_cat_no`
Filter(tab, m) ==
    IF m # 0 THEN SelectSeq(tab, LAMBDA r : r.cat_no >= m) ELSE tab

\* one row of the joined table: the ASTR columns, enrolled renamed after
\* table_names, and the PHYS enrolled column
JoinRow(l, e) ==
    [cat_no |-> l.cat_no, session |-> l.session, title |-> l.title,
     enrolled_astr |-> l.enrolled, enrolled_phys |-> e]

\* the rows a left join gives for one left row: one per right row with the
\* same key, or one with the right columns masked
RowsFor(l, right) ==
    LET m == SelectSeq(right, LAMBDA r : SameKey(l, r))
    IN  IF m = <<>> THEN << JoinRow(l, Masked) >>
        ELSE [j \in 1..Len(m) |-> JoinRow(l, m[j].enrolled)]

RECURSIVE LeftJoin(_, _)
LeftJoin(left, right) ==
    IF left = <<>> THEN <<>>
    ELSE RowsFor(Head(left), right) \o LeftJoin(Tail(left), right)

\* join(left, right, cols[:2], join_type="left"): both tables are sorted on the
\* keys, then each group of equal keys gives its left rows times its right rows
JoinOutcomes(left, right) ==
    { LeftJoin(l, r) : l \in KeySortings(left), r \in KeySortings(right) }

\* t["enrolled_phys"].fill_value = 0; t = t.filled()
Filled(tab) ==
    [i \in 1..Len(tab) |->
        [tab[i] EXCEPT !.enrolled_phys = IF @ = Masked THEN 0 ELSE @]]

\* t["year"] = year; t["semester"] = semester
Tagged(tab, term) ==
    [i \in 1..Len(tab) |->
        [cat_no |-> tab[i].cat_no, session |-> tab[i].session,
         title |-> tab[i].title, enrolled_astr |-> tab[i].enrolled_astr,
         enrolled_phys |-> tab[i].enrolled_phys,
         year |-> term.year, semester |-> term.semester]]

\* vstack(tables) of a non-empty list
RECURSIVE VStack(_)
VStack(tables) ==
    IF tables = <<>> THEN <<>> ELSE Head(tables) \o VStack(Tail(tables))

EnrolledAll_AstrOnly(r) == r.enrolled_astr

\* t_all["enrolled_all"] = t_all["enrolled_astr"] + t_all["enrolled_phys"]
EnrolledAll(r) == r.enrolled_astr + r.enrolled_phys

\* lines 98-99: the added column and the column selection
Finish(tab) ==
    [i \in 1..Len(tab) |->
        [year |-> tab[i].year, semester |-> tab[i].semester,
         cat_no |-> tab[i].cat_no, session |-> tab[i].session,
         title |-> tab[i].title, enrolled_astr |-> tab[i].enrolled_astr,
         enrolled_phys |-> tab[i].enrolled_phys,
         enrolled_all |-> EnrolledAll(tab[i])]]

-----------------------------------------------------------------------------
(* run *)

\* the years time.gmtime().tm_year can give
CurrentYears == {2026}
\* the arguments run is given; 0 stands for None as well, "" for None as well
YearStarts == {0, 2023}
NumYears == 0..MaxNumYears
MinimumCatNos == {0, 1000}
SavePaths == {"", "enrollment.csv"}

Terms_FallFirst(ys, n) ==
    [i \in 1..(2 * n) |->
        IF i % 2 = 1
        THEN [semester |-> Fall,   year |-> ys - (i - 1) \div 2]
        ELSE [semester |-> Spring, year |-> (ys - (i - 2) \div 2) + 1]]

\* line 77
Terms(ys, n) ==
    [i \in 1..(2 * n) |->
        IF i % 2 = 1
        THEN [semester |-> Spring, year |-> (ys - (i - 1) \div 2) + 1]
        ELSE [semester |-> Fall,   year |-> ys - (i - 2) \div 2]]

RECURSIVE RecordCount(_)
RecordCount(f) ==
    IF f = <<>> THEN 0
    ELSE Len(Head(f).astr) + Len(Head(f).phys) + RecordCount(Tail(f))

\* the listings the fetcher can still return
Listings ==
    LET left == MaxRecords - RecordCount(fetched)
    IN  SeqsUpTo(RecordPool, IF left < MaxListing THEN left ELSE MaxListing)

CodecIdle ==
    /\ semester = <<>> /\ year = 0 /\ term_key = 0
    /\ decoded = NoResult /\ cpc = "idle"

Init ==
    /\ CodecIdle
    /\ year_start \in YearStarts
    /\ num_years \in NumYears
    /\ minimum_cat_no \in MinimumCatNos
    /\ save_to \in SavePaths
    /\ terms = <<>> /\ idx = 0 /\ t = <<>> /\ t_all = <<>>
    /\ pc = "start" /\ error = "none" /\ requests = <<>> /\ fetched = <<>>
    /\ written = 0 /\ file = <<>>

Raise_SavePartial(kind) ==
    /\ pc' = "error"
    /\ error' = kind
    /\ written' = written + 1
    /\ file' = t_all

\* an exception raised inside run: nothing catches it, run is left at once
Raise(kind) ==
    /\ pc' = "error"
    /\ error' = kind
    /\ UNCHANGED <<written, file>>

\* lines 75-80
Begin ==
    /\ pc = "start"
    /\ \E now \in CurrentYears :
          /\ year_start' = (IF year_start # 0 THEN year_start ELSE now)
          /\ terms' = Terms(year_start', num_years)
    /\ idx' = 1
    /\ t_all' = <<>>
    /\ pc' = "loop"
    /\ UNCHANGED <<num_years, minimum_cat_no, save_to, t, error, requests, fetched,
                   written, file>>
    /\ UNCHANGED cvars

\* lines 81-85: the next term, its key, the ASTR fetch, the empty-table test
FetchAstr ==
    /\ pc = "loop"
    /\ idx <= Len(terms)
    /\ LET k == semester_year_to_term_key(terms[idx].semester, terms[idx].year)
       IN  IF ~k.ok
           THEN /\ Raise(k.error)
                /\ UNCHANGED <<idx, t, requests, fetched>>
           ELSE /\ requests' = Append(requests, <<k.key, "ASTR">>)
                /\ \/ /\ Raise("FetchFailure")
                      /\ UNCHANGED <<idx, t, fetched>>
                   \/ \E astr \in Listings :
                        /\ fetched' = Append(fetched,
                              [term |-> idx, astr |-> astr, phys |-> <<>>,
                               has_phys |-> FALSE])
                        /\ t' = astr
                        /\ IF Len(astr) = 0
                           THEN /\ idx' = idx + 1
                                /\ pc' = "loop"
                           ELSE /\ idx' = idx
                                /\ pc' = "merge"
                        /\ UNCHANGED <<error, written, file>>
    /\ UNCHANGED <<year_start, num_years, minimum_cat_no, save_to, terms, t_all>>
    /\ UNCHANGED cvars

\* lines 86-95: the filter, the PHYS fetch, the join, the fill, the tags
MergeTerm ==
    /\ pc = "merge"
    /\ LET k == semester_year_to_term_key(terms[idx].semester, terms[idx].year)
           left == Filter(t, minimum_cat_no)
       IN  /\ requests' = Append(requests, <<k.key, "PHYS">>)
           /\ \/ /\ Raise("FetchFailure")
                 /\ UNCHANGED <<idx, t, t_all, fetched>>
              \/ \E phys \in Listings :
                   /\ fetched' = [fetched EXCEPT ![Len(fetched)] =
                         [@ EXCEPT !.phys = phys, !.has_phys = TRUE]]
                   /\ IF phys = <<>>
                      THEN \* Table(rows=[]) has no columns to select
                           /\ Raise("KeyError")
                           /\ t' = left
                           /\ UNCHANGED <<idx, t_all>>
                      ELSE IF left = <<>>
                      THEN \* join refuses a table without rows
                           /\ Raise("ValueError")
                           /\ t' = left
                           /\ UNCHANGED <<idx, t_all>>
                      ELSE \E joined \in JoinOutcomes(left, phys) :
                           /\ t' = Tagged(Filled(joined), terms[idx])
                           /\ t_all' = Append(t_all, t')
                           /\ idx' = idx + 1
                           /\ pc' = "loop"
                           /\ UNCHANGED <<error, written, file>>
    /\ UNCHANGED <<year_start, num_years, minimum_cat_no, save_to, terms>>
    /\ UNCHANGED cvars

\* lines 97-99: after the loop, the stacking and the total
Stack ==
    /\ pc = "loop"
    /\ idx > Len(terms)
    /\ IF t_all = <<>>
       THEN \* vstack refuses an empty list
            /\ Raise("ValueError")
            /\ UNCHANGED t_all
       ELSE /\ t_all' = Finish(VStack(t_all))
            /\ pc' = "save"
            /\ UNCHANGED <<error, written, file>>
    /\ UNCHANGED <<year_start, num_years, minimum_cat_no, save_to, terms, idx, t,
                   requests, fetched>>
    /\ UNCHANGED cvars

\* lines 100-103: the optional write, the return
Save ==
    /\ pc = "save"
    /\ IF save_to # ""
       THEN /\ written' = written + 1
            /\ file' = t_all
       ELSE UNCHANGED <<written, file>>
    /\ pc' = "done"
    /\ UNCHANGED <<year_start, num_years, minimum_cat_no, save_to, terms, idx, t,
                   t_all, error, requests, fetched>>
    /\ UNCHANGED cvars

Next == Begin \/ FetchAstr \/ MergeTerm \/ Stack \/ Save

Spec == Init /\ [][Next]_vars

-----------------------------------------------------------------------------
(* Properties of the codec, checked under SpecCodec *)

\* C1: for every semester in {Spring, Summer, Fall} and every year in
\* 2000..2099, the encoding succeeds and decoding its result gives back
\* exactly (semester, year).
C1_RoundTrip ==
    (semester \in {Spring, Summer, Fall} /\ year \in 2000..2099) =>
        /\ cpc # "ValueError"
        /\ cpc = "roundtrip" =>
              /\ decoded.ok
              /\ decoded.semester = semester
              /\ decoded.year = year

C1_Witness ==
    /\ cpc = "roundtrip"
    /\ semester = Fall /\ year = 2023 /\ term_key = 1238
    /\ decoded.ok

\* C2: decoding a 4-digit term number whose last digit is in 0..3 fails and
\* returns no (semester, year) pair.
C2_DecodeRejects ==
    (cpc = "decoded" /\ term_key % 10 \in 0..3) => ~decoded.ok

\* the string s is the n-th semester word up to surrounding whitespace and case
IsSemester(s, n) ==
    \E a \in 0..Len(s) : \E b \in a..Len(s) :
        /\ \A i \in 1..a : s[i] \in Whitespace
        /\ \A i \in (b + 1)..Len(s) : s[i] \in Whitespace
        /\ b - a = Len(SemesterWords[n])
        /\ \A i \in 1..(b - a) : LowerChar(s[a + i]) = SemesterWords[n][i]

\* C3: the encoding fails, returning no term number, exactly for the semester
\* strings that are none of spring, summer, fall after trimming and
\* lower-casing; for the others it returns
\* 1000 + (year mod 100)*10 + semester_index*2 + 4.
C3_EncodeRejects ==
    cpc \in {"encoded", "roundtrip", "ValueError"} =>
        IF \E n \in 1..3 : IsSemester(semester, n)
        THEN /\ cpc # "ValueError"
             /\ \A n \in 1..3 : IsSemester(semester, n) =>
                    term_key = 1000 + (year % 100) * 10 + (n - 1) * 2 + 4
        ELSE /\ cpc = "ValueError"
             /\ term_key = 0

C3_Witness ==
    /\ cpc = "ValueError"
    /\ semester = <<"W","i","n","t","e","r">>
    /\ year = 2023
    /\ term_key = 0

-----------------------------------------------------------------------------
(* Properties of run, checked under Spec *)

\* whether t_all is the stacked table already
Stacked == pc \in {"save", "done"}
\* the rows produced so far, whatever the form of t_all
AllRows == IF Stacked THEN t_all ELSE VStack(t_all)
\* the rows of the term at position i of the term list
RowsOfTerm(i) ==
    SelectSeq(AllRows, LAMBDA r : r.year = terms[i].year /\ r.semester = terms[i].semester)
\* the records of a listing with the key of record k
WithKey(listing, k) == SelectSeq(listing, LAMBDA r : SameKey(r, k))
\* the primary records the catalog-number filter keeps
Surviving(listing) ==
    SelectSeq(listing, LAMBDA r : minimum_cat_no = 0 \/ r.cat_no >= minimum_cat_no)
AstrRequests == SelectSeq(requests, LAMBDA q : q[2] = "ASTR")
\* the fetches that returned a listing
Successes == Len(fetched) + Cardinality({i \in 1..Len(fetched) : fetched[i].has_phys})

\* C4: the number of merged rows of a term equals the number of its primary
\* records with catalog number >= minimum_cat_no, whatever the secondary
\* listing holds.
C4_LeftJoinCardinality ==
    \A i \in 1..Len(fetched) :
        fetched[i].has_phys =>
            Len(RowsOfTerm(fetched[i].term)) = Len(Surviving(fetched[i].astr))

\* C5: every row of the final table has enrolled_all = enrolled_astr +
\* enrolled_phys, enrolled_astr is the enrolled count of a primary record of
\* the row's term and key, and enrolled_phys is 0 when no secondary record of
\* that term has the row's key (else the count of one that has it).
C5_MergeTotals ==
    Stacked =>
        \A n \in 1..Len(t_all) :
            LET r == t_all[n]
            IN  /\ r.enrolled_all = r.enrolled_astr + r.enrolled_phys
                /\ \E i \in 1..Len(fetched) :
                      /\ terms[fetched[i].term].year = r.year
                      /\ terms[fetched[i].term].semester = r.semester
                      /\ \E j \in 1..Len(fetched[i].astr) :
                            /\ SameKey(fetched[i].astr[j], r)
                            /\ fetched[i].astr[j].title = r.title
                            /\ fetched[i].astr[j].enrolled = r.enrolled_astr
                      /\ IF WithKey(fetched[i].phys, r) = <<>>
                         THEN r.enrolled_phys = 0
                         ELSE \E j \in 1..Len(fetched[i].phys) :
                                 /\ SameKey(fetched[i].phys[j], r)
                                 /\ fetched[i].phys[j].enrolled = r.enrolled_phys

C5_Witness ==
    /\ pc = "done"
    /\ \E n \in 1..Len(t_all) :
          /\ t_all[n].enrolled_astr = 40
          /\ t_all[n].enrolled_phys = 5
          /\ t_all[n].enrolled_all = 45
    /\ \E n \in 1..Len(t_all) :
          /\ t_all[n].enrolled_phys = 0
          /\ t_all[n].enrolled_all = 10

\* C6: with a non-zero minimum_cat_no no row has a catalog number below it;
\* with minimum_cat_no None or 0 every primary record fetched for every term
\* is in the returned table.
C6_Filter ==
    /\ (pc \notin {"idle", "start"} /\ minimum_cat_no # 0) =>
          \A n \in 1..Len(AllRows) : AllRows[n].cat_no >= minimum_cat_no
    /\ (Stacked /\ minimum_cat_no = 0) =>
          \A i \in 1..Len(fetched) : \A j \in 1..Len(fetched[i].astr) :
              \E n \in 1..Len(t_all) :
                  /\ t_all[n].year = terms[fetched[i].term].year
                  /\ t_all[n].semester = terms[fetched[i].term].semester
                  /\ SameKey(t_all[n], fetched[i].astr[j])
                  /\ t_all[n].title = fetched[i].astr[j].title
                  /\ t_all[n].enrolled_astr = fetched[i].astr[j].enrolled

C6_Witness ==
    /\ pc = "done"
    /\ minimum_cat_no = 1000
    /\ t_all # <<>>
    /\ \E i \in 1..Len(fetched) : \E j \in 1..Len(fetched[i].astr) :
          fetched[i].astr[j].cat_no < minimum_cat_no

\* the term run is to visit in i-th place
ExpectedSemester(i) == IF i % 2 = 1 THEN Spring ELSE Fall
ExpectedYear(i) ==
    LET y == year_start - ((i + 1) \div 2 - 1)
    IN  IF i % 2 = 1 THEN y + 1 ELSE y
\* the place of a row's term in that order
TermPlace(r) ==
    CHOOSE i \in 1..(2 * num_years) :
        ExpectedSemester(i) = r.semester /\ ExpectedYear(i) = r.year

\* C7: the terms are visited in the order (Spring, y+1), (Fall, y) for
\* y = year_start down to year_start - num_years + 1, 2*num_years of them in
\* a run that returns; no Summer term is fetched; a term's PHYS fetch follows
\* its ASTR fetch at once; the rows of the returned table are in term order.
C7_TermOrder ==
    pc \notin {"idle", "start"} =>
        /\ Len(AstrRequests) <= 2 * num_years
        /\ \A i \in 1..Len(AstrRequests) :
              LET d == term_key_to_semester_year(AstrRequests[i][1])
              IN  /\ d.ok
                  /\ d.semester = ExpectedSemester(i)
                  /\ d.year = ExpectedYear(i)
        /\ \A n \in 1..Len(requests) :
              /\ term_key_to_semester_year(requests[n][1]).semester # Summer
              /\ requests[n][2] = "PHYS" =>
                    /\ n > 1
                    /\ requests[n - 1] = <<requests[n][1], "ASTR">>
        /\ Stacked =>
              /\ Len(AstrRequests) = 2 * num_years
              /\ \A m, n \in 1..Len(t_all) :
                    m < n => TermPlace(t_all[m]) <= TermPlace(t_all[n])

C7_Witness ==
    /\ pc = "done"
    /\ num_years = 2
    /\ Len(requests) = 6
    /\ Len(t_all) = 2
    /\ t_all[1].semester = Fall /\ t_all[1].year = 2023
    /\ t_all[2].semester = Spring /\ t_all[2].year = 2023

\* C8: when no fetch fails, an exception leaves run only on a term that has a
\* primary record with catalog number >= minimum_cat_no: a term without one,
\* and a range of nothing but such terms, raise nothing.
C8_EmptyTermsSkipped ==
    (num_years >= 1 /\ pc = "error" /\ error # "FetchFailure") =>
        /\ idx <= Len(terms)
        /\ fetched # <<>>
        /\ fetched[Len(fetched)].term = idx
        /\ Surviving(fetched[Len(fetched)].astr) # <<>>

\* C9: a failed fetch leaves run at once, is not repeated, and nothing is
\* written; the file is written at most once, and only after every term of
\* the range has been fetched without failure.
C9_NoPartialOutput ==
    /\ written <= 1
    /\ pc = "error" => (written = 0 /\ file = <<>>)
    /\ written = 1 =>
          /\ pc = "done" /\ error = "none"
          /\ Len(AstrRequests) = Len(terms)
          /\ Len(requests) = Successes
          /\ file = t_all
    /\ error = "FetchFailure" => Len(requests) = Successes + 1
    /\ error # "FetchFailure" => Len(requests) = Successes
    /\ \A m, n \in 1..Len(requests) : requests[m] = requests[n] => m = n

C9_Witness ==
    /\ pc = "error"
    /\ error = "FetchFailure"
    /\ save_to # ""
    /\ t_all # <<>>
    /\ written = 0

\* C10: a key that two or more records of one subject's listing share gives a
\* single row in the term's merged table, with the title and the enrolled
\* counts of the last such record of each listing.
C10_LastWriteWins ==
    \A i \in 1..Len(fetched) :
        (fetched[i].has_phys /\ ~(pc = "error" /\ i = Len(fetched))) =>
            \A j \in 1..Len(fetched[i].astr) :
                LET k    == fetched[i].astr[j]
                    prim == WithKey(fetched[i].astr, k)
                    sec  == WithKey(fetched[i].phys, k)
                    rows == SelectSeq(RowsOfTerm(fetched[i].term),
                                      LAMBDA r : SameKey(r, k))
                IN  (Len(Surviving(prim)) > 0 /\ (Len(prim) >= 2 \/ Len(sec) >= 2)) =>
                        /\ Len(rows) = 1
                        /\ rows[1].title = prim[Len(prim)].title
                        /\ rows[1].enrolled_astr = prim[Len(prim)].enrolled
                        /\ sec # <<>> => rows[1].enrolled_phys = sec[Len(sec)].enrolled

====
